# Verification of the UPI / credit-card fraud-detection system

TLA+ models of the program in `src/`, the TLC runs that check them on small
instances, and theorems about them that TLAPS checks. The code is the
reference: every definition that stands for code is listed with its file and
lines in `PROJECT.json` ("map").

Contents: 1 the system, 2 what is hard about it, 3 modules and code,
4 runs, 5 fairness, 6 proofs, 7 findings, 8 what is not modelled, 9 plan.

## 1. The system

Three programs and a database:

- **backend** (`src/backend`): one Node/Express process. Handlers are `async`
  functions that interleave at every `await`; there are no locks and no Mongo
  transactions, so one Mongo operation is the unit of atomicity.
- **ai-engine** (`src/ai-engine`): one FastAPI/uvicorn process that scores
  payments and manages model files and a JSON registry.
- **frontend** (`src/frontend`): a React application; several tabs may share
  one browser, and so one refresh cookie.
- **MongoDB**: the only persistent state of the backend.

| component | state it keeps | operations | properties that make it correct |
|---|---|---|---|
| Sessions and refresh tokens (`authController`, `sessionService`, `refreshTokenService`, `authMiddleware`) | `AuthSession`, `RefreshToken` documents | register, login, refresh (rotation), logout, logout-all, check of an access token, sweeps of expired documents | a family has one usable token; a replay closes the session; a closed session stays closed; what the client holds is what the server accepts |
| Login throttling and lockout (`loginSecurityService`) | three counters: user document, `LoginThrottle` per e-mail and per address | check, count a failure, reset on success | locks with the threshold-th failure, never earlier; an announced lock holds; punishment is progressive |
| Multi-factor authentication (`mfaService`, `authController`) | MFA fields of the user and of the session | enroll, confirm, verify, disable, regenerate codes | a recovery code counts once; the active secret is one the user has; repeated misses lock |
| Fraud rules and verdict (`riskEngineService`, `fraudEngine`, `aiService`) | none (pure) | points per signal, capped sum, normalised AI answer, final level | worse evidence never yields a milder verdict; no single signal blocks; an outage of the AI never allows |
| Transactions and alerts (`transactionController`, `fraudEngine`, `fraudController`) | `Transaction`, `FraudAlert` documents | process a payment, change an alert's status | what a verdict says of the history is in the history; a burst is bounded; a suspicious payment has an alert |
| Geolocation (`geoLocationService`) | in-memory cache | look up an address | a stale or failed lookup accuses nobody |
| Model registry (`platform_service.py`, `training_service.py`) | JSON registry, joblib files, the loaded artifact | register, promote, roll back, retrain | the champion exists and is what the registry says; an answered promotion stands |
| Inference log and feature stores (`platform_service.py`, `model_service.py`) | a log, an online and an offline store, each a file | record an inference, read the history | a write that breaks off costs one other record at most; no update of the online store is lost |
| Scoring (`model_service.py`, `features.py`, `transaction_schema.py`) | the loaded artifact | predict | the guardrail makes worse evidence no milder; decision and risk level belong to one probability |
| Real-time events (`config/socket.js`, `fraudSocket.js`, `socketService`) | rooms of connected sockets | connect, join, emit | events of a payment arrive in their order |
| Fraud dashboard (`DashboardPage.jsx`, `useDashboardData.js`, `useFraudSocket.js`) | two lists, two counters, a live stream | load a bundle, handle an event | nothing is shown twice, nothing the page was told of is missing, the counters are explained |
| Frontend session (`api.js`, `AuthContext.jsx`, `tokenStorage.js`) | two cookies and a stored access token shared by the tabs; per tab the user shown and the pending refresh | request, refresh on 401 and retry, restore, log in, log out | the client never looks like a thief to the replay detection; what it ends with is honoured; a logout sticks |
| Trusted devices and login risk (`deviceTrustService`, `authRiskService`, `loginSecurityService`) | `Device` documents; last and known addresses of the user document | register, score a login, record it, trust, revoke | no login without a second factor unless device and address vouch for it; a revoked device is not trusted again |
| CSRF (`csrfMiddleware`, `csrf.js`) | cookie and header | issue, compare | – (stateless) |
| Field encryption, keys (`encryptionService`, `keyManager`, `cryptoUtils`) | configured secrets, encrypted fields, blind indexes | encrypt, decrypt, rotate by the clock, restart with other secrets | what was written can be read and found |
| Rate limiting, anomaly detection, audit, security events, analytics, validators, configuration, pages | see `PROJECT.json` | | |

How they interact. `protect` validates the access token against `AuthSession`
before every protected handler. Login goes through the throttles, the user's
lock, the password, the risk score of the login, the session, the refresh
token and (if it is required) the MFA gate, which keeps the session from
everything but the MFA routes. A payment passes `protect`, the token-anomaly
check, the rate limiter, validation and `fraudEngine`, which reads earlier
`Transaction` documents and asks the AI engine over HTTP with a timeout and
retries; `createTransaction` then stores it, stores its alert if it is
suspicious, and emits events to the dashboard. The frontend answers a 401 with
a refresh and repeats the request.

## 2. What is hard

- **Read, await, write.** Handlers decide on a document read several awaits
  earlier. Refresh rotation, recovery codes and the session's own revocation
  are written with compare-and-set updates; the lockout counters, the MFA
  failure count and the attach of a refresh token are not.
- **Several documents, no transaction.** A rotation is four writes in two
  collections; revoking a family is two; a payment and its alert are two. The
  process may die, or a call fail, between any two of them.
- **Promise.all.** Logout runs two revocations side by side; the rule engine
  runs three reads side by side while other payments are being stored.
- **Two sources for one page.** The dashboard shows bundles of queries and
  single events; nothing orders one against the other.
- **Files written in place.** The AI engine's files are truncated and
  rewritten, or appended to, by several threads, and a failed write is swallowed.
- **Keys that move.** The version a field is encrypted with changes with the
  clock, in the middle of a handler too, and with every restart.
- **Feedback.** Flagged payments count as failures of the next ones.
- **Timeouts and retries** against the AI engine.
- **Thresholds.** Seven rules with their own steps, a cap, and three levels.

`PROJECT.json` "hazards" lists each with its line and the properties that
would show it going wrong.

## 3. Modules and code

### Sessions: `SessionTokens`, `CredentialChain`, `SessionTokensInv`

`SessionTokens` has one action per database operation of login, refresh,
logout and logout-all and of the rejection of an access token. `session` and
`token` are the two collections; `request` holds, for each handler in flight,
the point it has reached and its local variables (session, presented grant,
minted child, revocation writes still to be done); `issued` is what clients
hold; `ended` is a history variable. A *grant* is the access token and the
refresh token minted together. A family belongs to one session for life, so
the session names it. The operations of a `Promise.all` are in `todo` and run
in any order; `WriteFamilySession` follows `WriteTokens` because the code
awaits the first.

`CredentialChain` is the abstract specification: a session honours one
credential at a time, a credential is redeemed at most once, only an active
session changes its credential and a closed one never opens again.
`ImplementsChain` is `CredentialChain!Spec` under the mapping
phase = session status, accepted = `tokenId`, spent = the rotated tokens.

`SessionTokensInv` holds the inductive invariant in two layers: `Ownership`
(who may touch which document) and, above it, what a rotation owns. It is
proved, not model-checked, by `SessionTokensProofs`.

### Lockout: `LoginLockout`

`counter` holds the three kinds of counter, `attempt` the handlers in flight
with what they have read. `Arrive` reads the user document;
`CheckThrottle`/`Refuse`/`Admitted` are `assertLoginAllowed`; `ReadThrottle`
and `WriteThrottle` are the two halves of `recordThrottleFailure`, decided at
the read; `FailAccountAndAnswer` writes the account counter *from the snapshot
taken on arrival*; `ResetCounter` is `recordSuccessfulLogin`. History:
`failures` (counted against a counter), `streak` (since it last locked or was
reset), `told` (deadlines answered), `overlapped` (counters two attempts
concerned at one time).

### Second factor: `Mfa`

One account, its sessions, and handlers for enroll, confirm, verify, disable
and regenerate, each split at its awaits. A TOTP code is the secret it comes
from; a recovery code is its batch and its index. `Redeem` is the
compare-and-set of `consumeRecoveryCode`, which names only the index. A listed
code may be matched or not: its hash is encrypted in the database and left so
when it is read (section 7), so only a hash from before the encryption matches.
`RecordFailure` uses `SelectedFailures == 0`: the projection of the query does
not contain the failure count (section 7).

### Verdict: `RiskRules`, `AiScoring`, `RiskEvidence`

`RiskRules` holds the pure operators: the points of each signal, `RuleScore`,
`DecisionFromScore`, the normalisation of the AI's answer (`Prediction`),
`FinalLevel`, `StatusFromLevel`. Amounts are whole rupees, hours are "late" or
not. `AiScoring` is the engine's side: what the backend sends (`PayloadOf`),
the bounds of its input (`Accepted`), the guardrail (`Guards`), the probability
as the graver of guardrail and forest, and the level and decision derived from
it. The forest itself is any percentage. `RiskEvidence` is a state machine over
both: one payment whose evidence gets worse step by step, so that monotonicity
is an action property. Its `opinion` is what the forest says, or an answer of a
service of another version, or an outage; `answer` follows from it and the
evidence. A payload outside the engine's bounds is a 422 and so an outage:
`EvidenceNeverHelps` excepts exactly the step into it (`Refused`).

### What the engine keeps: `InferenceStore`

The threads that score payments call `record_inference`: `Lock`, `AppendLog`,
`OpenOnline` and `SaveOnline` (read, change and truncate; write), and
`AppendOffline`, which also releases the lock. A file is a sequence of lines, each
with what can be parsed of it and whether it has its end; a line appended to one
that was cut off becomes part of it. `RecordFails` is the exception that
`predict_transaction_fraud` swallows, `Crash` the end of the process; `CutOff`
is what either may leave of an append, and a store caught between truncation
and write stays `Torn` until the next thread reads it as empty. "Latest" is by
the order of the log: `createdAt` is taken before the lock. History: `logged`,
`done` (all three writes succeeded), `lasting` (those since the online store was
last damaged).

### Encrypted fields: `FieldKeys`

A ciphertext is its layers, each the version it names and the secret behind its
key. `ActiveVersion` and `SecretOf` are `getActiveKeyVersion` and
`getKeyForVersion`; `Write` is a plain value going through the hooks of
`encryptedFieldsPlugin`, `Prepare`/`Save` a value that the service encrypts
itself and the update hook meets later, perhaps under another version (then it
is decrypted and encrypted anew, never twice). `Copy` is a handler that reads a
list of subdocuments, whose fields the read hook does not reach, and has their
ciphertext in hand until it saves the list (`mergeKnownIp`). `Tick` moves the clock,
`Reconfigure` restarts the backend with another `KEY_VERSION` or
`KEY_ROTATION_INTERVAL`, `ReplaceMaster` with another master. No document
describes how a master is replaced; the model's operator does what
`MASTER_ENCRYPTION_KEYS` exists for and keeps the old secret for every version
in use and for `blind-index`.

### The page: `DashboardFeed`

`status`, `stage`, `alert`, `stored` and `raised` are the database and the
handlers of `createTransaction` as far as the page sees them (`FraudPipeline`
has them in full); `wire` is what is on its way to the page. `Refresh`, `Query`,
`ShowBundle` and `BundleFails` are `useDashboardData`, `Deliver` is a listener
of `useFraudSocket`, `Join` and `Drop` are its connection, after which nothing
is fetched. The two lists, the two counters and the live stream are computed
from bundle and events independently of each other, so a behaviour follows one
of them (`part`). History: `untold` (payments with a change the page was not
sent), `during` and `raced` (payments that moved while a bundle was in flight).

`Filtered` is the `filter` of `mergeUnique` as a function on the positions kept:
the provers know nothing of the library's `SelectSeq`.

### The fraud desk: `FraudDesk`

Verdict, record, identifier and page are four ends of a payment's way, none of
which waits for another. `FraudDesk` instances the four modules, so that one run
checks them: a behaviour is one of one of them, chosen at the start (`end`),
while the others stay as they began, so the states are the sum of the four and
not their product. `MCFraudDesk` only adds values of constants and lets the ends
that are not looked at start in one way.

### Payments: `FraudPipeline`

`txns` and `alerts` are the collections, `request` the payments in flight.
`Arrive`, `LookUp`/`KeepClaim`, the three reads, `Score`, `AiFails`/ `AiAnswers`,
`Create`, `CreateAlert` and `Respond` follow `fraudEngine` and
`createTransaction`; `Fail` and `Crash` end a request where a call can fail;
`UpdateAlertStatus` is the administrator. `claim` is the location in the body: any
place, or none, since it is optional and the client's own. `KeepClaim` takes it
where nothing is looked up or the lookup fails; `LookUp` may find the address
without its coordinates. What is missing becomes `Origin` (`Normalized`). Places
are model values any two of which are more than 800 km apart (the
impossible-travel distance), and `Origin` is latitude 0, longitude 0. History:
`seen` (the payments stored when the request came), `located` (its place was
looked up), `abandoned`.

### Model registry: `ModelRegistry`, which implements `ModelCatalog`

The threads of the AI engine train (`/train`), retrain (`/retrain`), promote,
roll back or look. `registry`, `file` and `copies` are the JSON registry, the
model file and the copies per version; `served` and `configured` are memory of
the process; `platformLock` and `modelLock` are `_PLATFORM_LOCK` (an RLock) and
`_MODEL_LOCK`. `thread` holds what each thread is doing and its copy of the
registry. `path.write_text` and `joblib.dump` open a file, truncate it and
write it in place, so a write is two steps and the file is `Torn` in between:
`Ensure`/`EndSaveEnsured` and `Apply*`/`EndSaveApplied` for the registry,
`BeginDump`/`EndDump` for the model file. `refresh_model_artifact` trains under
`_MODEL_LOCK`, `trigger_retraining` without it, so dumps may overlap (`mixed`).
`ApplyRollback` goes on as a promotion that takes the lock again (`Reenter`).
`Crash` empties the memory and leaves the files; `Start` loads the model file
or trains, perhaps for another configured version, and cannot load a torn one.
`promised` is history: the version last answered to a promotion or rollback.

`ModelCatalog` is what it promises those who ask: a champion, a challenger and a
list, without locks, files or steps; each request takes effect at once, at one
moment between being asked and being answered (`Nominate`, `Crown`), after whoever
asks has found a list with the version in use on it (`Enter`), and is turned down
only where it could have no effect (`Vain`). `Catalog` in `ModelRegistry` is the
refinement mapping: `Book` is the file or, while it is being written, what is
being written, so an operation takes effect when its write begins; nobody else
reads the file before it is whole. A rollback is first `Choose`, then a promotion.
`Die` loses the whole list (a torn file) or nothing.

### The browser: `ClientSession`, composed with `CredentialChain`

`jar` (the two cookies) and `stored` (the access token in `localStorage`) are
shared by the tabs; `view` is what each tab's `AuthContext` shows; `call` and
`job` are the axios calls and the `POST /api/auth/refresh` in flight, with the
credentials they carry. `Begin` and `Reload` send, `Serve*` is the server,
`JoinRefresh` and `StartRefresh` the response interceptor on a first 401. An
answer counts twice. When it lands, the browser applies its `Set-Cookie`
(`LoginLands`, `LogoutLands`, `RenewalLands`, `RefusalLands`); when the page's
script reads it, the page writes `localStorage` and what it shows (`SignedIn`,
`LoggedOut`, `Refreshed`, `RefreshDenied`; `Fetched` and `Unauthorized` are answers
without cookies). In between anything may happen: a timeout (`TimeoutCall`,
`TimeoutJob`), a reload, another tab's answer. What has landed has set its cookies
even if nobody reads it. The
server's part *instances* `CredentialChain`, the specification `SessionTokens`
is checked to implement, so the two models compose at that promise: `Redeem`
and `Renew` stay two steps, a session may be closed between them, and a
successor is answered even then. `aged` are the expired access tokens. A tab
that is reloaded drops the answers it waited for while the requests that change
something may still be served. History: `loggedOut` and the `late` mark of a
call sent after a logout, `replayed`, and `trouble`, the kinds of disturbance
that have happened: a lost answer of a refresh or of a logout, two tabs getting
in each other's way, a login overtaken by other traffic, a session closed from
elsewhere. Properties name the disturbances they except; `Crossing` tells what a
refresh crosses that starts or is joined. That the stored token and the cookies
speak for one session has one exception, a login that overlaps other traffic
or whose answer is not read; that they are of one pair holds only once the page
has read what landed, and without disturbance.

### Login by device and address: `LoginRisk`

One account without MFA (with it `Mfa` takes over), its `Device` documents and
the fields of its user document the risk is computed from. A request takes its
snapshot on arrival (`ArriveToLogin`), `Assess` is `assessLoginRisk`,
`FindDevice` and `CreateDevice`/`UpdateDevice` are `registerOrUpdateDevice` with
the unique index on the fingerprint, `Block` and `OpenSession` what `scoreRisk`
decides, `RecordSuccess` writes the known addresses *merged into the snapshot*.
`Recognised` says that a known address is found only if it is `legible`: the
addresses are encrypted in the database and left so when they are read, so one
stored since then is unusual each time and listed again; both cases are
allowed of every request.
`BreakOff` is every way a handler ends early, a crash included, since nothing a
handler holds outlives it. The points of the failed logins and of the
`x-network-risk` header are free. History: `used`, `previous`, `alone`.

`MC*` modules add the symmetry sets and the finite values of constants.

## 4. Runs

| run | instance | shows |
|---|---|---|
| `SessionTokens` | 2 sessions, 3 grants, 2 handlers, crashes, clock stopped | `OneLiveToken`, `LineageIsAChain`, `HalvesAgree`, `EndedIsInactive`, refinement of `CredentialChain` |
| `SessionTokens_live` | 1 session, 3 grants, 2 handlers, tokens that expire | `ReplayClosesSession` |
| `LoginLockout` | 2 attempts, 2 e-mails (one registered), 1 address, threshold 2 | `LocksAreEarned` for all interleavings, the documented behaviour for serial attempts |
| `Mfa` | 2 handlers, 2 secrets, 2 batches of one code | `ListedCodeOnce`, `RedeemedCodeIsSpent`, `SecretIsConfirmed` |
| `Mfa_lock` | 1 handler | the MFA lock is never set |
| `FraudDesk` | verdict: every threshold of rules, guardrail and input bounds from both sides, the forest at three percentages, answers of another version; record: 2 customers with 2 records, 2 threads, 2 broken writes; identifier: 2 fields, 2 versions, 1 tick, 3 masters; page: 2 payments, lists of 1 and 2 rows | `EvidenceNeverHelps`, `OneSignalNeverBlocks`, `AiOnlyRaises`; `RecordsAreKept`, `OnlineIsLatest`; `FieldsStayReadable`; `SuspicionIsShownOnce`, `CountersDriftOnlyByRaces`, `BlockedIsSaid`; `DeskTypeOK` (the rule score within 0..100, lists within their limit) |
| `FraudPipeline_burst` | 5 payments, 2 in flight, one identity | `BurstIsBounded`, `AllowedIsVouched`, `BlockIsEarned` |
| `FraudPipeline_live` | 2 payments in flight, 2 addresses, failures, crashes, AI retries, clients that claim to be abroad or say nothing, lookups with and without coordinates | `LastPaymentDecides`, `RequestsEnd`, `SuspicionIsAlerted` |
| `ModelRegistry` | 2 threads, 2 versions, crashes and restarts | `OneChampion`, `PromotionHolds`, `ModelsAreBacked`, `HoldersGoOn`, refinement of `ModelCatalog` |
| `ClientSession` | 2 tabs, 2 calls and 2 refreshes in flight, 2 sessions, 3 grants, answers that land and are read apart, one kind of disturbance | `ReplayIsExcused`, `CredentialsAreHonoured`, `LogoutSticks` |
| `ClientSession_retry` | 1 tab, 1 call | counterexample to the guide's automatic retry |
| `LoginRisk` | 2 requests, 1 device, 1 private and 2 public addresses, 2 ticks | `PlainLoginIsVouched`, `TravelIsChallenged` |

Bounds and why they are enough. *Handlers in flight: two.* Every hazard listed is
a race of two handlers on one document; a third adds only another loser of the
same compare-and-set. *Grants: three*, so that a rotation, the replay of its
parent and a further rotation or login are all possible. *Sessions: two* for
logout-all and the refinement, where a revocation closes several sessions.
*Threshold: two* instead of five: the code compares with it in one place, and two
is the least value at which a lost update differs from a lock. *Payments: five*
for the burst (the bound of the property is reached with four, and a block by
repetition needs three predecessors), two where every payment may fail at every
step. *Fraud desk:* amounts 1, 19999 to 50001, velocities 0 to 6 and 1001,
failures 0 to 4 and 101, ipRisks 0 to 85 are the values on both sides of each
comparison in `calculateRuleRisk`, `_domain_guardrail_probability` and
`TransactionInput` (whose bound on amounts, 10,000,000, acts like the others); the
forest's 39, 40 and 75 lie on both sides of the review threshold and on that of
fraud. Two payments are one that moves and one that must not be disturbed, lists
of one row are full at once. Two broken writes are one that tears a line and one
that tears what is appended to it. Three masters are one in use, one kept and one
forgotten if it were not kept. *Versions: two* for the registry, a champion and
another; *threads: two*, one in the registry and one at its lock or in the model
file. *Clock:* a step or two; all windows are compared with it by subtraction
only, so a window of one tick has an inside, an edge and an outside. *Tabs, calls,
refreshes: two each*; a tab has at most one refresh, and the second call is what
waits for it, retries with it or arrives after it. The constraint `OneDisturbance`
cuts behaviours with two *kinds* of disturbance: every clause of the properties
excepts a kind by name, so what they claim is claimed of behaviours with none or
one. `FewGrants` lets a third grant be issued only while nothing but answers of
logouts was lost: after another disturbance there is one more refresh or login to
come, which two grants are enough for. The theorems know neither constraint.
*Device: one* in `LoginRisk`: no two documents of different devices meet in any
formula of the code. *Known addresses: two* of three, so that the list overflows.
In `LoginLockout` a run that has crashed is continued with serial attempts only
(`SerialAfterCrash`); crashes leave the documents as a slow handler would, which
the rest of the run covers. `CHECK_DEADLOCK FALSE` is set where the bounds on
grants, payments and time end every behaviour; the program itself waits for
requests.

What the bounds leave to the theorems, which have none. In `LoginLockout` base
and ceiling of the lock are one tick, so the doubling up to a ceiling is not
exercised: the properties need only that a lock lasts until the deadline that
was announced. In `FraudPipeline_burst` the clock stops with the first window
still open; a window that closes is the second half of `BurstInv`. In
`FraudPipeline_live` there is one device, so the sign compared is that of the
place.

What the properties except, and so would not catch. `SuspicionIsAlerted`: the
alert lost with the request that stored the payment, which is then a known
outcome of the code and counted by `abandoned`. `PromotionHolds`: a registry
torn by a crash, which loses every promise. `ModelsAreBacked` speaks of the
existence of a copy, not of what is in it. `BlockedIsSaid`: a page that missed
an event (`untold`). `EvidenceNeverHelps`: the step into a 422.
`PlainLoginIsVouched`: a login that was recorded and then not finished vouches
like any other. `HalvesAgree` is satisfied by a session left open without a
usable token (a crash between the two writes of a revocation).

The largest runs are `FraudPipeline_burst` (4.4 million distinct states),
`LoginLockout` (2.8 million), `LoginRisk` (1.5 million), `FraudDesk`
(1.3 million), `ClientSession` and `SessionTokens` (about a million each).

Symmetry is used only for sets whose members the module never orders or
names, and never in a run with a liveness property.

Each property of a passing run has a mutant of the code in the module
("Variant for mutation") under which TLC finds it violated, so no property
holds by the shape of the model alone.

## 5. Fairness

`FairSpec` of `SessionTokens` and of `FraudPipeline` asks for weak fairness of
the steps of each handler that has started: Node's event loop runs every
resolved continuation, and every awaited call resolves or rejects (Mongo calls
through the driver's timeouts, AI calls through `AI_REQUEST_TIMEOUT_MS` and a
bounded number of attempts). Nothing is asked of clients, of the clock, of the
administrator or of failures. `ReplayClosesSession` is checked without crashes:
a crash between the two writes of a revocation loses the second one, which no
later code repairs. `SuspicionIsAlerted` is checked with failures and crashes
and excepts only the payment whose own request broke off.

## 6. Proofs

| module | theorem | |
|---|---|---|
| `SessionTokensProofs` | `TypeCorrect` | `Spec => []TypeOK`, for any number of sessions, grants and handlers, any lifetime and clock bound |
| | `EndedStaysInactive` | `Spec => []EndedIsInactive`, under the same conditions |
| | `DocumentsConsistent` | `Spec => []Documents`: the two collections, the held credentials and the accepted access tokens point at each other rightly between any two writes |
| | `InductiveInvariant` | `Spec => []IInv` |
| | `OneTokenLives`, `LineageForksNowhere`, `HalvesStayTogether` | `OneLiveToken`, `LineageIsAChain`, `HalvesAgree` |
| | `ServicesImplementChain` | `Spec => Chain!Spec`: the handlers implement `CredentialChain` |
| | `DocumentsOnlyAge` | action: nothing spent or revoked becomes usable again, no session reopens, a token keeps family, parent and successor |
| | `ReplayIsNotForgotten`, `ClosingIsSeenThrough` | a replay or logout has closed its session or has before it the write that will; no step but a crash takes it from that (`ReplayClosesSession` without fairness) |
| `LoginLockoutProofs` | `TypeCorrect`, `NoEarlyLock` | `TypeOK` and `LocksAreEarned`, for any number of attempts, e-mails and addresses and any limits |
| | `SerialInvariant`, `LocksAtThreshold`, `LockHolds`, `OffensesNeverDrop` | what holds while the attempts at a counter come one at a time |
| `MfaProofs` | `TypeCorrect`, `AcceptedOnce`, `AcceptedIsSpent`, `SecretIsTheUsers` | `TypeOK`, `ListedCodeOnce`, `RedeemedCodeIsSpent`, `SecretIsConfirmed`, for any handlers, sessions, secrets and codes |
| `FraudDeskProofs` | `VerdictIsMonotone` | the verdict is monotone in all evidence and in the prediction |
| | `EvidenceTheorem`, `AiTheorem`, `OneSignalTheorem` | the properties of `RiskEvidence`, for all amounts, counts, address risks and forests |
| | `DeskKnowsTheLatest`, `DeskKeepsRecords` | `OnlineIsLatest` and `RecordsAreKept`, for any customers, records, threads and number of broken writes |
| | `DeskReadsFields` | `FieldsStayReadable`, for any fields, versions, master secrets and clock bound |
| | `DeskShowsOnce`, `DeskCountsRight`, `DeskSaysBlocked` | `SuspicionIsShownOnce`, `CountersDriftOnlyByRaces`, `BlockedIsSaid`, for any payments and any length of the lists |
| | `DeskTypes` | `DeskTypeOK` |
| `FraudPipelineProofs` | `TypeCorrect`, `AllowedAreVouched`, `BlocksAreEarned`, `BurstsAreBounded` | `TypeOK`, `AllowedIsVouched`, `BlockIsEarned`, `BurstIsBounded`, for any finite set of slots, any payers and windows, with failures and crashes |
| | `LastPaymentsDecide` | `LastPaymentDecides`, whatever clients claim and lookups leave out |
| | `NoSuspicionIsForgotten`, `AlertsAreCreatedOnce` | a suspicious payment has its one alert, or its request is about to create it, or broke off; no other payment has any |
| | `RequestsAreShort`, `RequestsOnlyAdvance` | a request has at most `8 + AiAttempts` steps to go; each of its own shortens the way, none of the others' lengthens it (`RequestsEnd` without fairness) |
| `ClientSessionProofs` | `TypeCorrect`, `ReplaysAreExcused`, `HeldIsHonoured`, `LogoutsStick` | `TypeOK`, `ReplayIsExcused`, `CredentialsAreHonoured`, `LogoutSticks`, for any tabs, calls, refreshes, sessions and grants, and with any mixture of disturbances |
| | `ServerKeepsItsPromise` | `Spec => Server!Spec`: what the browser's server does is `CredentialChain` |
| `LoginRiskProofs` | `TypeCorrect`, `PlainLoginsAreVouched`, `TravelIsAlwaysChallenged`, `RevokedForGood` | the properties of `LoginRisk`, for any requests, devices, addresses, window and list length (on `LoginRiskInvariant`), and that no step makes a revoked device trusted |
| `ModelRegistryProofs` | `RegistryInvariant` | `Spec => []RInv`, for any versions and any number of threads |
| | `TypeCorrect`, `RegistryIsSound`, `PromotionsHold`, `ListedModelsAreBacked` | `TypeOK`, `OneChampion`, `PromotionHolds` and `ModelsAreBacked` under the same conditions |
| | `NobodyWaitsForHimself`, `HoldersAreNotStuck` | nobody waits for a lock with one in his hands; whoever holds one finds the condition of his next step fulfilled |
| | `LocksAreGivenBack` | action: every step of a request brings it nearer to its answer, at most thirteen steps away, and no other takes it back |
| | `RegistryImplementsCatalog` | `Spec => Catalog!Spec`: the registry implements `ModelCatalog` |

Every invariant a run checks is stated by a theorem, but for one (see the end of
this section). The type invariants of the first rows and that of `FraudPipeline`
are proved and no longer run; those of the ends of `FraudDesk` are checked
together, as one invariant.

Assumptions: the named `ASSUME`s of the modules (`None` is no session or
grant, lifetimes are positive naturals, sets of inputs are sets of naturals).
`LoginLockout` assumes of the doubling lock that powers of two are naturals,
which the provers do not know (`PowerAssumption`; TLC evaluates it).
`RiskEvidence` assumes of answers of another service that their level and
decision belong together (`Consistent`); of the engine's own answers this is
computed, both words coming from one probability. `DeskAssumption` says that the
absent value is no thread and no record, that a damaged store is none that could
be read, and that the bounds are naturals. `FraudPipeline` assumes that finitely
many requests are served at one time; that the sets of payments counted are
finite is proved.

The argument for the verdict: each signal's points grow with the signal
(one lemma per signal), so their sum, its cap, the level read from it and the
more severe of it and the AI's level do too. On the engine's side each guard
grows with its signal and the probability is the greatest of them and of the
forest, so the level grows as long as the payload is accepted. For one signal,
each lemma bounds the points of a signal below the blocking score.

The argument for `TypeCorrect` of the sessions: `TypeOK` is not inductive
alone (the documents written come from the handlers' snapshots), so it is
proved with what a handler's point in the code says of its snapshot: one
lemma per action.

The argument for `EndedIsInactive`: the answer of a logout or of a replay
rejection promises that the family write has closed the session, but that write
(`AuthSession.updateMany` by family) matches only a session to which the family
is attached. So the invariant must say that whoever revokes a family does so
for a session with `current # None`: the credential presented was issued, and
what was issued was attached first (`IssuedExist`, `AccessBelongs`). That in
turn needs to know whom the documents being created belong to: ids are unique
(`UniqueChild`, `UniqueSession`, `ChildIsFresh`), a session without a family
belongs to its login alone (`LoginOwns`), a rotation works for the family of a
token someone holds (`RefreshOwns`). These parts make up `Ownership`, and
`OwnInv == TypeInv /\ Ownership` is inductive. Steps with the same effect share
a lemma: `RevokingOwns` for a handler left with revocation writes only,
`IdleOwns` for one that ends, `WriteOwns` for every write that only closes
sessions (`Closing`) and voids tokens (`Voiding`), `IdsStay` and `Bystander` for
what the handlers that do not move keep.

The argument for the rotation: `IInv == OwnInv /\ Rotation`. A rotation under
way, from the successful compare-and-set to its answer, is the only one of its
family (`RotatesAlone`), no token of the family that a client holds is usable
meanwhile (`OwnsFamily`), a usable token about to be consumed is the one its
session accepts (`RefreshIsCurrent`), and every parent was rotated
(`ParentsAreRotated`).
`OneLiveToken`, `LineageIsAChain` and `HalvesAgree` are the remaining parts. The
step that matters is `RefreshConsume`: the compare-and-set finds the one usable
grant of its family, so nobody else was rotating, and leaves none. Each other
action disturbs one or two parts and has a lemma of its own.

The argument for the refinement: under the mapping a step of a handler is
`Open` if it creates a session, `Redeem` if it is a successful compare-and-set,
`Renew` if it answers a rotation, `Close` if it closes sessions, and stutters
otherwise. That `Renew` installs a credential that was never accepted before,
and `Redeem` spends the accepted one, needs `IInv`.

The argument for the lockout: `EarnedInv` says of every counter, and of what
every attempt carries from a read to a write, that it is covered by the failures
counted so far (threshold times offenses plus failures, `Earned`). An overwritten
counter is then at most forgotten. `SerialInv` adds, for counters that no two
attempts have concerned at one time: the attempts in flight concern different
counters (`Apart`), what they hold is what is stored (`Held`), the stored count
is the streak (`StreakIsCounted`) and the told deadline is stored
(`SerialLockHolds`).

The argument for the second factor: `MfaInv == Handlers /\ Documents`. Random
material in flight is nobody else's and has been shown to nobody, so a redeemed
code, which was shown, is in no batch yet to be stored; a confirmation about to
be written carries the secret its code was checked against.

The argument for the registry: the three properties speak of the file, but a
thread writes what it computed from an earlier read, so they are not inductive
alone. `RInv` adds mutual exclusion (`Holder`: a thread between taking and
releasing the lock is the holder), and that the copy such a thread carries is
itself sound, backed and in agreement with the last promise (`CopyAgrees`); a
torn file belongs to a thread that is writing it, or has no promise to keep
(`NoPromiseLost`). Two frame lemmas carry the invariant over what a step leaves
alone: `Outside` for steps that do not touch the registry, `Inside` for those
of the lock's holder; each action then needs only what it leaves behind. The
lemmas on registries as values (`WithModelIsSound`, `NewIsSound`,
`RegisteredIsSound`, `PromotedIsSound`) say what each operation preserves.

The argument for its locks: `LocksAreUsed` says the converse of mutual
exclusion, that whoever has a lock is where the code holds it. So nobody waits
while he holds one, and what holds a lock is at a step that asks for nothing,
except for a rollback: the version it chooses is listed (`RollbackChooses`),
because there is a last one among the listed versions that are not champion.
`Left` counts the steps to the answer; each of them lowers it (`OnItsWay`), so a
lock is given back, provided the thread that has it is scheduled.

The argument for the refinement: `CatInv == RInv /\ LocksAreUsed /\
CopyIsCurrent`, the last saying that the copy of a thread at `apply` is the file
itself, that the file is torn while somebody writes, and that a training that is
about to register has its version on the list. Each action then is one of
`ModelCatalog` or does not show: the step that begins a write shows what it
writes, the step that ends it shows the same (`BookThen`); beginning a dump,
waiting and locking do not show. That a 404 is truthful is `RollbackChooses`: a
rollback finds no target only if every listed version is the champion.

The argument for the login's risk: `VouchInv` says of the user document and of
every handler's copy of it that each known address belongs to a login that was
recorded (`Vouched`). A recorded login writes the *copy's* list with one address
more, so lost updates only shrink what is vouched for; `WithKnownIsSound` covers
the list's overflow. `LowIsVouched` is the arithmetic: an untrusted device leaves
19 points below the threshold, which an unknown public address uses up.
`TravelInv` adds what the copy of a request that met no other remembers of the
last recorded login. Being in two places is more than the threshold by itself
(`TravelIsNotLow`), and a clock that goes on only leaves the window.

The argument for the online store: `StoreInv` says that whoever is between
taking `_PLATFORM_LOCK` and releasing it is its holder (`Holds`), that the
record he logged is the last of all (`HasLogged`), and that the copy he writes
back knows every lasting record and his own (`Writes`). Since the copy is read
and written under one lock, no other update falls in between; a store damaged
on the way promises nothing until it is written whole (`Promise`).

The argument for the histories: `KeptInv` counts what broken writes have cost.
`Cost` of a file is the kept records it cannot be read for, and one more if it
was left without its end, because that end will spoil the next line. A broken
write raises the cost by one at most; a line after a damaged end is lost but
the damage is gone, so the cost stays. That a damaged end holds a record in
nobody's hands and kept by nobody (`Spared`) is what makes the two cancel.

The argument for the encrypted fields: `KeysInv` says of every ciphertext,
stored or still in a handler's hands, that it has one layer whose secret is the
one its version gives. A new version or interval changes no secret; a new master
changes none of a version in use, and a restart leaves nothing in hand.

The argument for the desk: each end has an inductive invariant of its own, and a
behaviour of `DeskSpec` is one of every end (`VerdictIsOfDesk`, `RecordIsOfDesk`,
`VaultIsOfDesk`, `PageIsOfDesk`), which carries the theorems over.

The argument for the page: `PageInv` has, below its types, three parts about
what feeds the page and three about what it shows. `DbAgrees`: the two
collections agree with how far each handler got. `WireIsOrdered`: an event is
sent once, after its handler's last write, and the suspicious event of a blocked
payment is followed by its blocked one. `DuringKnows`: a bundle in flight knows
every payment that was under way while it was. On these rest `StreamInv` (who is
marked as merely suspicious is blocked by an event still to come, or lost),
`RowsInv` (every alert is in the list, expected, unsaid or raced, or the list is
full; and so it will be in the bundle that was read), and `CountInv`. The last
is not about a number but about two sets: what a counter shows is
`Cardinality(A) + Cardinality(B)` for `A` the payments the last bundle counted
and `B` those that events counted on top of it. A payment is in both only after
a race, and in neither only if its event is still to come, was lost, or raced
(`Accounted`); the two bounds of `CountersDriftOnlyByRaces` are then
inclusions of sets. The lemmas on lists (what putting a row on top of a filtered
and truncated list keeps, once per key) are proved from `Filtered` by the
enumeration of a finite set of positions.

The argument for the payments: the properties speak of what is stored, but a
verdict rests on what its request read earlier. `Typed` adds to the types that
there is room for every payment under way. `Grounded` says that what a request
has read stays true while others are stored: as many payments are in its window
as it counted, or fewer; at least as many failures as it counted; the earlier
payment that it was found far from is still there. `VerdictMeans` turns level
and reasons back into evidence: an allowed payment has a `LOW_RISK` answer and
fewer than three in its window, repetition alone blocks only with three
failures. Both meet at `Create`, the only step that stores, and give `Vouched`
and `Earned` of the new payment. For the burst that is not enough, because what
is bounded is a set that several requests fill: `BurstInv` says of every window
still open that the payments allowed in it, together with the requests in flight
that have counted few enough to be allowed (`MayPass`), are no more than the
bound. A request joins `MayPass` only by a count below three, when at most two
are allowed and every other slot may pass; it leaves when it is stored. When the
window has closed only the first set is left. `SignsInv` says of every stored
payment that one of those which were its identity's latest while it was served
gives both of its signs, and that a place that was looked up is the one of its
address. One payment must give both because they come from one read; that
read falls between arrival and `Create`, so what it found was the latest then,
and what is stored later does not change which that was.
`AlertInv` counts the alerts still to be created (`Awaited`) with those there
are: a request owes an alert exactly from its `Create` to its `CreateAlert`, and
what ends it in between puts the payment among the abandoned ones.

The argument for the browser: the invariant has layers, each of which rests on
those before it. `Shapes` says what a call and a refresh look like at each
stage, and that a tab has callers waiting exactly while it has a refresh.
`Families` and `Arriving` say that every grant outside the server was issued,
and that one on its way to the page is in nobody's hands. `OneFlight`: without
a lost answer and without tabs that cross there is one refresh at a time, and
only it may hold a redeemed token (`ReplayIsExcused`). `OneSession`: unless a
login overlapped other traffic, the stored token and all that is in flight, if
the server would still honour it, is of the session of the cookies, except for
the moment between a login's cookies and its stored token. `Late`: so after a
logout has landed nothing is, and none of the calls sent since then can be
accepted. `Undisturbed`: with nothing gone wrong and nobody logged out the
cookies are honoured, or the one refresh in flight brings what is; the stored
token is of their pair, or a page has yet to read what landed; and a tab that
shows a user has cookies unless it is about to learn otherwise (`Leaving`).
Each action is first told field by field (the `Does`
operators), so that each layer needs one short leaf per action.

Only model-checked, because it is out of the prover's reach: liveness under
fairness (`ReplayClosesSession`, `RequestsEnd`, `SuspicionIsAlerted`), and
everything about enabledness (the invariant `HoldersGoOn` of `ModelRegistry`).
What each of these owes to the steps, and not to fairness, is proved. The
conditions of the steps in `HoldersGoOn` are fulfilled (`HoldersAreNotStuck`), and
the steps lead to the answer (`LocksAreGivenBack`). A suspicious payment without
an alert is accounted for (`NoSuspicionIsForgotten`). For `RequestsEnd`,
`Remaining` is a natural number that every step of a request lowers and that no
other step raises; it rests on `PatienceInv`, that attempts are counted only while
a request asks and that one is always left then, so that giving up is possible.
For `ReplayClosesSession`, the handler has the closing write before it, that write
matches its session because the family is attached (`RevocationCloses`), and no
other handler's step undoes either; `DocumentsOnlyAge` makes the closing final.
What is left to fairness is only that a handler that can take a step takes one.

## 7. Findings

- `Mfa_lock`: the failure count is never read from the database, so the lock
  after five wrong codes is never set.
- `ClientSession_retry`: the retried request still carries the `Authorization`
  header of its first attempt, the server prefers the header to the renewed
  cookie, and the second 401 signs the user off. Only calls that go out after
  the refresh profit from it.

Seen while modelling, without a run of their own:

- Login failures that overlap at one counter count once, so an account can take
  more than the five failures `PHASE1_AUTH_THUNDER_CLIENT_GUIDE.md` and
  `authSecurity.test.js` speak of before it locks; the same lost update may write
  an older snapshot over a lock already announced with 423 (hence the *Serial*
  properties of `LoginLockout`).
- A rotation that has consumed its parent creates the child after a replay
  revoked the family. The child stays active, contrary to
  `PHASE2_COOKIE_REFRESH_THUNDER_CLIENT_GUIDE.md`, though its session is closed
  and it cannot be used (`EndedIsInactive`).
- Two tabs that refresh at one time trip the replay detection and both lose the
  session; `ReplayIsExcused` names this exception.
- A redemption that overlaps a regeneration of the codes may accept an old code
  a second time, because the update names the index and not the code (hence
  *Listed* in `ListedCodeOnce`).
- Impossible travel may rest on what the client says. Where nothing is looked up,
  or the lookup fails, the place of a payment is the location in its body, which
  is optional and not checked; where that or the coordinates of a lookup are
  missing it is 0, 0 (`normalizeGeoLocation`), so the next payment from anywhere
  else has travelled impossibly. `LastPaymentDecides` says which payment a verdict
  compares with in every case, and that the addresses do lie apart exactly where
  both places were looked up.
- Fields of subdocuments in arrays stay encrypted when they are read.
  `transformPath` asks `hasOwnProperty` (`encryptionService.js:129`), and the
  paths of a Mongoose subdocument are accessors of its prototype. So a recovery
  code is compared with the ciphertext of its hash (`User.js:169`,
  `mfaService.js:164`) and not matched, and a known address is not recognised
  (`User.js:171`, `loginSecurityService.js:253`) and listed again at each login.
  This was read from the code and not run, and it depends on how Mongoose builds
  subdocuments; `Mfa` and `LoginRisk` therefore allow both outcomes, `FieldKeys`
  keeps such fields readable through copies of their ciphertext.
- During an outage of the AI service, payments flagged only because of the
  outage count as failures of everybody behind the same address, so the fourth
  is blocked.
- A training of the champion's version turns the champion's own record into a
  challenger's (hence `SoundRegistry` only forbids that *another* record claims
  to be champion); dumps that overlap may leave a copy that is marked
  `rollbackSafe` and is not; a crash while the model file is written keeps the
  engine from starting.
- A payload beyond the bounds of the engine's input (velocity over 1000, failures
  over 100, amount over 10,000,000) is refused with a 422, which `aiService`
  takes for an outage. So a payment that the guardrail would have blocked may be
  flagged instead once its evidence gets that bad: with the forest at 75, a rise
  of the velocity from 0 to 1001 lowers the verdict from blocked to flagged.
- The guardrail calls a payment HIGH_RISK for one signal (amount from 50,000,
  velocity from 6, travel, ipRisk from 85), where the rules alone never block for
  one: impossible travel alone is blocked while the AI engine is up and flagged
  while it is down.
- The dashboard counts an event on top of a bundle that already contains its
  payment, drops what arrived before a bundle that was read earlier, and fetches
  nothing after a lost connection; until the next refresh its counters may be off
  by the payments concerned, in either direction.
- `get_feature_store` reads the online store without the lock and sees an empty
  store while another thread writes it. An offline store created by a write that
  broke off never gets its header (`write_header = not path.exists()`).
  `queueDepth` counts every job there ever was.
- With `KEY_ROTATION_INTERVAL` set, `MASTER_ENCRYPTION_KEYS` must name each
  version with its counter (`v1.17`): an entry for the base name alone leaves
  those fields unreadable after the master was replaced. Replacing the master
  under the same version is safe only if the old secret stays listed for that
  version, which then keeps it. Without an entry `blind-index` every blind index
  misses after a new master and all devices are registered anew. One document
  that cannot be decrypted fails every query that returns it (the `init` hook
  throws).

## 8. Not modelled

The status and reason of every component are in `PROJECT.json`. In short:
the trained forest (represented by any percentage) and the training itself;
ciphers, hashes, TOTP arithmetic (represented by what they decide); formatting,
charts, styling; append-only audit records; code no route reaches (threat
intelligence, notifications, SOC incidents); stateless checks (CSRF, roles,
validators) and the counters of the rate limiter, which are a library's. Not
modelled yet: the geolocation cache and the rotation of the anti-forgery token.
Of the browser: the second-factor screens and registration, whose answers are
handled as a login's. Of the login's risk: the user agent and
`suspiciousLoginFlag`, which are stored and decide nothing. Of the AI engine:
the feedback log, prediction jobs (one dictionary entry each), the drift report
and dashboards (arithmetic over the log), a training that raises, and a write of
the registry that raises while the process stays up (a full disk): it would leave
the torn file that is modelled for a crash, but with a thread to report it. Of the
sockets: the rooms nothing about payments is sent to; that an open socket
outlives its session (nothing in the repository promises otherwise). Of field
encryption: json fields, the older format of MFA secrets, and the parsing of
the configuration.

## 9. Plan

Done, in this order: A sessions; B lockout; C second factor; D verdict and
payments; E model registry; F the browser's session; G login risk and devices;
H the engine's scoring; I the dashboard and its events; K what the engine
keeps; L keys and encrypted fields; the proofs of A to L.
To come:

1. **Geolocation cache** – a location that is kept for ten minutes while
   failures are not, and what the impossible-travel rule makes of it.
2. **Liveness of the browser** – that the calls of `ClientSession` settle.
3. **Proofs** – a measure for the calls of the browser, as there is for
   payments and for the registry's requests, and action properties of the second
   factor's documents.

A run is kept for what it shows that no other does; new ones take the place of
weaker ones rather than lengthen the list.
