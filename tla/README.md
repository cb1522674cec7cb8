# A verification development for EUDI-demo

EUDI-demo answers questions such as "is this user over 18?" or "can this user
open a bank account?" from privacy-preserving credentials. A Rust **engine**
holds the knowledge and decides; a Java **API** orchestrates, asks a language
model for help with paraphrases, and contains a mock **wallet**. This directory
models the parts of it that decide and the ways they interleave, checks them
with TLC on small instances, and proves the central theorems with TLAPS for
every value of the constants.

Paths below are relative to the repository; `engine/` stands for
`rust-engine/src/`, `api/` for `java-api/src/main/java/com/demo/eudi/`.

## 1. Inventory

| component | code | state | operations |
|---|---|---|---|
| registry | `engine/config.rs`, `domain/mod.rs`, `config/*.yaml` | read-only after start | `kind_of`, `supported_questions` |
| resolution | `engine/resolution/mod.rs`, `api.rs` `resolve` | none | `resolve_tier1`, `validate_proposal` |
| inference | `engine/inference/mod.rs` | none | `required_predicates`, `privacy_ordered`, `established_from_evidence`, `build_plan` |
| policy | `engine/policy/mod.rs` | none | `evaluate_predicate`, `evaluate` |
| audit | `engine/audit/mod.rs`, `lib.rs` builders | audit id -> record, behind a mutex | `record`, `get`, three builders |
| replay store | `engine/replay/mod.rs` | request id -> challenge and consumed flag, behind a mutex | `put`, `get`, `validate_and_consume` |
| SD-JWT verifier | `engine/evidence/mod.rs` | the pinned issuer key | `verify`, `derive_evidence` |
| issuer | `engine/issuer/mod.rs` | the signing key of this process | `issue` |
| engine handlers | `engine/api.rs` | local variables of each handler | `/engine/resolve`, `plan`, `evaluate`, `presentations`, `issuer/issue`, `audits` |
| verification service | `api/service/VerificationService.java` | request id -> provenance and question | `questions`, `presentations`, `decisions` |
| engine client | `api/client/EngineClient.java` | none; 2 s to connect, 5 s to read | one method per engine endpoint |
| model resolvers | `api/resolution/*` | none | `propose` |
| wallet | `api/service/MockWallet.java` | holdings, one credential per subject; one monitor | `issue`, `grant`, `present`, `knownEvidence` |
| web console | `static/app.js` | per flow: canonical, challenge, presentation, last answer, in the browser | `ensureIssued`, `askCanonical`, `present`, `verify`, `runReplay`, `runTamper`, `fetchAudit` |
| audit passthrough | `api/controller`, `api.rs` `get_audit` | none | read an audit by its id |
| error mapping, OpenAPI | `api/error`, `openapi.rs` | none | |

**Interaction.** The console or any client calls the API; each API request is a
servlet thread that makes blocking HTTP calls to the engine. A *question* is
resolved (registry first, then a proposal of the model that the engine checks
for membership), then planned: the engine stores a challenge with a nonce, an
audience and a term of five minutes. The client takes the challenge to the
wallet and the wallet's presentation back through the API to the engine, which
verifies it, consumes the nonce, evaluates and records an audit; with the
answer's audit id the client may read that record. A *decision* is
resolved and evaluated at once, on the wallet's abstract holdings.

**What is hard.** The engine runs handlers on several threads and takes its
mutexes one after the other, so handlers interleave between reading a challenge,
consuming it and recording. The API may give up on a call the engine still
serves. Either process may restart, and everything is in memory: nonces, audits
and the issuer's key with the engine, provenance and the wallet with the API.
Two clocks exist: the wall clock and the injected evaluation time. Two languages
keep tables that must agree. The hazards in `PROJECT.json` point at the lines.

**What makes each part correct.** Resolution: nothing is acted upon that was not
earned. Inference: following a plan leads to ALLOW. Policy: a decision follows
from the evidence it cites. Age: the calendar's, to the day. Audit: a decision is on record before its answer,
and the record explains it. Replay store: single use, for good. Verifier: ALLOW
only for a presentation bound to its challenge. Service: provenance reaches the
audit. Wallet: one credential, sufficient disclosure, no lost grant. All of
them together: a client that does as it is told is answered what the subject's
attributes call for, or told one of a few causes why not.

## 2. Modules

```
Registry <- Inference <- Policy <- Evaluation         the decision dialogue
                              \<- Engine (+ Verifier)  the engine process
                              \<- Gateway (+ SingleUse) API and engine
                              \<- Wallet (+ Verifier)  wallet, issuer, decisions
Wallet + SdJwt (<- AgeCheck) + Engine <- Journey       a presentation's whole way
SingleUse                    what the replay store promises
EngineSafety, GatewaySafety, WalletSafety, JourneySafety    properties
PolicyLemmas <- EvaluationProofs
PolicyLemmas <- EngineProofs
GatewayProofs <- GatewayAnswers
PolicyLemmas <- WalletProofs, CredentialProofs <- JourneyProofs     proofs
MC*                          values for TLC
```

* **Registry, Inference, Policy** are the pure part, as operators. A lookup is a
  function from every evidence type to its state, an absent entry being
  `"MISSING"`, which no branch of the code tells apart. Lists whose order no
  decision depends on are sets; the privacy order is the operator `MostPrivate`.
  `Report` is `policy::evaluate`, `BuildAudit` is `build_audit` of `lib.rs`.
* **Evaluation**: a client repeats one question with a growing evidence list.
* **Verifier**: `FailedCheck` is the chain of checks of `verify` in its order;
  a presentation is the record of what the checks read. Cryptography is ideal:
  a signature verifies under the key that made it only, a digest covers what it
  covers.
* **AgeCheck**: `is_over_18` as it compares year, month and day, on the civil
  calendar, and the reference it is held against: the number of a day, and the
  day on which 18 years have passed.
* **SdJwt**: what travels between the processes, as terms. A presentation is the
  sequence of its parts, an empty one for what a closing `~` leaves behind; `Issue`
  and `PresentVp` put it together, `HashedText` and `DisclosedClaims` are what
  `evidence::verify` makes of it, `StateFrom` derives evidence from a disclosed text
  and a date.
* **Engine**: `Plan`, and a handler of `/engine/presentations` in one action per
  critical section: `Start` (both clock readings; `Receive` is `Start` with any
  arguments a client may send), `Peek` (read under the
  mutex, then all checks on the copy), `Consume` (`validate_and_consume`, then
  evaluation, which is pure), `Record`, `Reply`. `ReceiveUnparsable` is the 400
  for a bad evaluationTime. `Restart` empties store and log, changes the issuer
  key and loses the handlers under way.
* **SingleUse**: the abstract specification: challenges are issued, accepted at
  most once, or forgotten.
* **Gateway**: the API's threads over the engine. A thread's stage names what it
  waits for; `rpc` holds requests not served, `answerOf` answers not read.
  `TimeOut` ends the thread, not the request: `Serve...` may still serve it.
  `ServeUnknown` refuses a canonical without a definition, and `AfterRefusal` passes
  that on. `ResolutionUnread` is a resolution whose body cannot be read (`safeBody`),
  which counts as a miss; a plan or a decision that cannot be read ends in
  `INTERNAL_ERROR` or `ENGINE_ERROR`, for which `ENGINE_UNAVAILABLE` stands. The
  engine here is SingleUse, instantiated, with the log beside it: that
  `Engine` implements it is what `engine_race` checks and `EngineProofs` proves.
  What a presentation contains is not repeated here: it is accepted, fails a
  check, or is refused by a nonce code.
* **Wallet**: the wallet's threads and its monitor, the issuance made while the
  monitor is held, grants and the non-atomic listing of holdings, the failure of
  either engine call, expiry and the restarts of both processes.
* **Journey**: the flows of the console over Wallet, the issuer, an instance of
  Engine and the clock. A flow has the credential issued, asks, has the wallet
  present, submits what it got, altered or not, once or more, and may read the
  audit. `ReadVp` maps the parts of a presentation to the record Verifier and
  Engine work on: `OnlyTheTextPresented` and `EvidenceAgrees` say what this reading
  tells apart and what it derives. An alteration is what `tamperVp` does, or another
  client would do, to a presentation it holds. `Break` ends a call more often than
  `api()` does, which goes on with the body of an error. `RestartApi` and
  `Engine!Restart` take a wallet and an engine away under any step; `Break` and `GiveUp` are how a call then ends.

State and code correspond one to one: `store` is `InMemoryReplayStore.inner`,
`audits`/`log` is `AuditLog.inner` (keyed by the call instead of a fresh UUID),
`provenance` is the two maps of `VerificationService` (one, since the client
cannot know the key before both are written), `holdings`, `credentials` and
`monitor` are the wallet's fields and intrinsic lock. `calls` are the local
variables of handlers and threads, kept after their end so that properties can
speak of answers. The line ranges are in `PROJECT.json`, `map`.

Definitions named with a *Broken variant* comment are deliberate bugs; none is
used by a specification. Each property was seen to fail when one of them
replaces the definition after it.

## 3. Runs

| run | instance | what it shows |
|---|---|---|
| `evaluation` | shipped registry plus awkward ones the loader accepts (unlisted preference, repeated option, no options, undefined predicate); lists up to 3 entries in all 6 states | `FollowingThePlanAllows`, `CitedEvidenceReproduces`, `AuditExplainsDecision`, `AvailableNeverHurts` |
| `engine_race` | 1 challenge, 3 calls, TTL 1 of 2 ticks, 1 restart | `AtMostOneWinner`, `ReplayHasWinner`, `AnswersAudited`, `CopyStaysValid`, `SpentStaysSpent`, refinement `SingleUseSpec` |
| `engine_checks` | 2 challenges, 1 call, 18 presentations each deviating in one respect, known evidence, a predicate and a policy, an explicit and an implicit evaluation time | `TypeOK`, `AllowIsEarned`, `PlanIsEnough`, `SpentOnlyByVerified`, `EveryCallEnds` |
| `gateway` | 2 challenges, 3 calls, a registered question and a paraphrase, a confident proposal and an unsure one, 1 restart of one process | `GuardrailHolds`, `ProvenanceTold`, `DecisionsBacked` |
| `gateway_live` | 1 challenge, 2 calls, the same questions and made-up identifiers, 1 restart of each process; a registered question whose canonical nobody defined and a proposal of that canonical | `GuardrailHolds`, `ProvenanceTold`, `EveryCallAnswered` |
| `wallet` | 1 subject, 3 calls, a term of less than one tick, 1 restart of each process | `OneCredential`, `HonestPresentationAllowed`, `GrantsCount` |
| `journey` | 1 flow of up to 2 submissions and another client's wallet call; a policy of age and residence; 3 PIDs (a child of 29 February 2008 in and outside the EU, and a birth date that names no day), on 2026-02-28 and 2026-03-01; 11 alterations; terms of zero; 1 restart of each process | `OnlyTheTextPresented`, `EvidenceAgrees`, `AlteredIsNamed`, `AnswerHasCause`, `AuditToldBack`, `EveryFlowEnds`, `OthersAreServed` |

**Why the bounds are enough.** A race on one challenge needs two submissions,
and a third to arrive after it; three calls are also what "decide, grant, decide"
takes. Two ticks past a term of one give before, at and after; `engine_checks`,
`wallet` and `journey` use terms of zero, which give at and after. A second restart
meets nothing the first did not. `journey` has one flow and one other client:
submissions that race are `engine_race`'s, calls served late and to nobody are
`gateway`'s. `gateway` has two requests, so that an audit could get the text of
another; its three calls see a restart of one process only (`OneRestart`), the two of
`gateway_live` see both. The two days of `journey` are the eve and the day of the 18th
birthday of a child of the 29th of February, where the comparison of month and day is
hardest; that it is right on all other dates is proved. It submits an honest
presentation, one altered in a way that fails before the credential's term is looked
at, and one that fails after; the other alterations, and every text that can stand
between the two JWTs, are held against the engine's state whenever the flow has a
presentation in hand (`AlteredIsNamed`, `OnlyTheTextPresented`: own disclosures, a
stranger's and empty parts, in every order, up to one part more than was presented).
The PID is a parameter, since the demo's fixture stands for a register of persons.
Calls and requests are interchangeable, so safety runs use symmetry; liveness runs do
not. Deadlock is not checked, because the clients of a bounded model run out of calls.

**Fairness.** `Engine`: a handler with work to do gets to do it (the tokio
runtime; no handler awaits anything). `Gateway`: a servlet thread runs, and its
time-out counts as its own step, so that liveness needs nothing of the engine.
`Journey`: a call of a flow ends, by its answer, by its connection breaking, or by
the API giving it up (`Ends`; time-outs of 2 s and 5 s, and its own restart);
handlers run; wallet threads run, and a free monitor goes to one of those waiting:
Java monitors are not first-come first-served, but only finitely many calls
compete. The user owes nothing: a flow may stop between two calls only when its
buttons are free. Clients, clocks, restarts and serving owe nothing.

**Disagreements between documents and code**, each a run that must find a
violation:

* `ttl_clock`: the nonce's term is tested against the wall clock, not the
  injected clock of WHITEPAPER 7 and 8.
* `false_claim`: an affirmatively false claim does not deny when another option
  of the predicate is available, against WHITEPAPER 6.4. A bank policy
  presentation shows it: a name makes `GOVERNMENT_IDENTITY` available, and that
  is an option of `age_over_18`.
* `refusal_unaudited`: `UNRESOLVED_QUESTION` emits no audit object, against the
  header of `audit/mod.rs`.
* `provenance_untold`: audits of replays and failed checks have no question and
  no `resolvedBy`, against the comments in `VerificationService`.
* `minimal_disclosure`: the wallet discloses `given_name`, which no evidence
  needs, against WHITEPAPER 6.2.

Seen while modelling and not made into runs: a presentation with an expired
credential is DENY (`EXPIRED_CREDENTIAL`) while WHITEPAPER 1.4 and the header of
`policy/mod.rs` keep DENY for established falsity; a late replay is
`EXPIRED_NONCE`, not `NONCE_ALREADY_CONSUMED` (WHITEPAPER 493); the membership
gate accepts any defined predicate while DEMO_GUIDE 289 calls
`supportedQuestions` the enforced closed set; the wallet never replaces a
credential that has expired or whose issuer has restarted; `WRONG_AUDIENCE` and
`WRONG_REQUEST_ID` cannot come out of `/engine/presentations`, since the verifier
has compared the same values before (`CopyStaysValid`); `runReplay` explains every
second answer as a spent nonce (`app.js` 519), also when the engine has restarted or
the challenge has run out; an `evaluationTime` with an offset is read in that
offset's calendar (`lib.rs` 75), though the API sends none; Enter in the text box
starts a flow while the buttons of another are disabled (`app.js` 642), and the two
share `CURRENT_PIPE`.

## 4. Proofs

Every safety invariant, action property and refinement that a passing run checks
is also a theorem, for every value of the constants.

Assumptions, each stated where its constants are declared:

* `RegistryAssumption`: options are sequences of evidence types (the loader's type).
* `EngineAssumption`, `WalletAssumption`, `GatewayAssumption`: naturals for times and
  bounds; holdings are evidence types; a verdict is ALLOW, DENY or UNKNOWN; an
  identifier that a client makes up is none the engine draws.
  `PresentationAssumption`, `ProposalAssumption`: a presentation has a term, a proposal
  a canonical and a confidence.
* `SdJwtAssumption`: a text that parses as a date names a day of the calendar.
* `JourneyAssumption`: the calls of flows and of other clients are calls; the dates of
  a run are in order and last as long as its clock.
* `AlterationAssumption`: the stranger's key is no call's and the other nonce no
  flow's (both are drawn at random in the code); a question that is asked has some
  claim to show, since otherwise there is no disclosure to alter; the attributes the
  issuer signs are texts (`demo_claims` lists strings).

Nothing is assumed of the number of calls, flows, submissions, requests,
presentations, predicates, policies or restarts.

**EvaluationProofs** proves the four properties of `Evaluation` for every
registry and every evidence list. The invariant says that evidence is a list of
entries and that report and audit are those of the last call; the rest are facts
about the operators, in `PolicyLemmas` (`MostPrivate` returns a member of its
set; the three predicate states are exclusive; what `Decide` returns).

**EngineProofs**:

* `TypeCorrect`: `Spec => []TypeOK`.
* The safety theorems need more than their statements. `SafeInv` adds to them
  that the challenge of every winner has been issued and is not open
  (`WinnersSpend`), that every consumed entry has a winner of the running process
  (`SpentHasWinner`), and that a handler about to peek or consume belongs to the
  running process and has no outcome yet (`UndecidedIsCurrent`). `AtMostOneWinner`
  alone is not inductive: nothing in it says that the entry of a winner is spent,
  or that its identifier cannot be issued again after a restart.
* From it: `SingleWinner`, `ReplayIsJust`, the action property `SpentForGood`, and
  `ImplementsSingleUse`, the refinement: `Plan` maps to Issue, a `Consume` with
  result OK to Accept, `Restart` to Forget, everything else to stuttering.
* `AnswerInv` says of each handler what it has in hand at its stage: past its checks,
  that they held for its copy of the challenge under the key of its own process
  (`Checked`); past consumption, the result and the report that follow from that copy;
  of the store, that an entry's nonce is its request's (`StoreNamed`) and that an entry
  and a handler's copy of it differ in nothing but being consumed (`CopiesAgree`):
  without it the entry that is consumed could be another than the one that was checked.
  From it `CopyLasts`, `DecisionsLogged`, `AllowEarned`, the action property
  `SpentByVerified`, and `PlanSuffices`: an answer with result OK is the report on its
  own copy, and that report leaves open just what nothing decisive was asked for. The
  last covers policies that require predicates without a definition.

**WalletProofs**: `CredentialIsOne` rests on the monitor: only its holder is at the
stage that stores a credential, and between its look at the map and its write
nobody else can be (`MonitorHeld`); what was served came from the map
(`ServedFromWallet`). `GrantsAreCounted` needs of a listing under way that it
contains the grants that had ended before it began (`HeldAtLeast`, `ListsEarlier`).
`HonestIsAllowed` needs types only: it is the fit of two tables, the wallet's
`ClaimsToDisclose` and the verifier's `RequiredClaimFor`, under any registry.
`Claimable` says which questions can be allowed at all.

**GatewayProofs**: `GuardrailStands`. A thread waits for one answer, to what it asked
last (`Dialogue`); while it asks the tiers, the request and the answer are those of
its own text and proposal (`Tiers`); nothing is done in the name of a call before it
has a resolution, nor for a canonical it has not earned, nor after a refusal
(`ActsOnMerit`). `GuardrailHolds` alone says nothing of the tiers' answers, where
the right to act comes from.

**GatewayAnswers**: `DecisionsStand`. A challenge that is not open was accepted for
exactly one call (`Spending`); what a call asks for is new to the engine and the
answer on its way is borne out by the log and the challenge (`CallBacked`), so that
the log keeps the record of an answer until the engine restarts. `ProvenanceStands`
needs the origin of identifiers: each comes from one plan, whether or not the thread
that asked has read the answer (`OneOrigin`), the maps of this start of the API know
every asker with its own text and tier (`MapsTell`), and what is sent to the engine,
or on record there, tells of that asker (`SendsKnown`, `RecordTells`). The made-up
identifier is why `GatewayAssumption` keeps those apart from the engine's: one that
was guessed would be given no provenance.

**CredentialProofs** is about data only. `AgeIsExact`, `is_over_18` agrees with the
count of days on every pair of dates, and `AdultForGood`, who is of age stays so; the
lemmas count leap years by quotients and days by months. The rest says what the
wallet puts together for any claims, key, audience and nonce: which parts a
presentation has (`PresentedParts`) and what the verifier reads of them
(`PresentDiscloses`). It is why the credential has four disclosures in a fixed order
and `Selected` is no recursion.

**JourneyProofs** is about the composition.

* `JourneyKeepsWallet`: each step of a journey is a step of `Wallet`, or leaves the
  wallet alone, so that the types proved there hold here. (The engine is not handed
  over in this way: in `Engine` clients send any of a set of records, here what a
  wallet put together. Its invariants are proved again, of this store and log.)
* `TextIsBound`: the wallet's text and the verifier's are closed in the same way, so
  that equal digests mean equal texts, part by part (`TextIsItsParts`); the key binding
  of a presentation fixes all that stands before it (`OnlyTheTextPasses`), and what is
  presented passes (`BindingNamed`). `ReadParts` and `ReadPresented` spell out what is read of
  a text; `ReadHonest`, that of an honest one it is the record `Wallet.Vp`, on which
  `HonestIsAllowed` rests.
* `EvidenceMatches`: the disclosed text and the instant agree, which rests on
  `AgeIsExact` and on there being a first instant from which the holder is of age
  (`AdultSince`).
* `JourneyInvariance`: `JourneyInv` is what holds of flows, handlers, store and log
  together. A flow holds the challenge it was given and was told what its last
  submission was answered (`FlowOk`); each submission has its handler, and only the
  last may be under way (`SentOk`); a handler carries what its flow's submission
  carries, read with the same credential, PID and challenge ever since (`HandlerOk`), and
  once it has an answer that is the one its epoch, the checks and the earlier
  submissions call for (`AnswerOk`); an entry of the store is the challenge its flow
  holds and is consumed just when one of its submissions was let through (`StoreOk`);
  the log has the record of each decision of this engine that is on its way, and no
  other (`LogOk`), and what a flow has read is that record (`ReadOk`). None of the three
  properties below is inductive: they speak of answers only, and these depend on what
  the handler found in the store, which depends on the answers to other submissions.
* From it `AuditIsTold`; `AlterationIsNamed`, alteration by alteration: what each does
  to the parts and which check sees it first (`DisclosureNamed`, `SignatureNamed`,
  `LeftOutNamed`, `OtherBindingNamed`, `FragmentNamed`); and `AnswersHaveCauses`: the
  engine's report on what an honest presentation discloses decides as the subject's
  attributes do, predicate by predicate (`DerivedIsShown`, `EvidenceDerived`,
  `PredicateIsTruth`, `DecisionIsVerdict`).

`JourneyInv` was checked by TLC on the instance of `journey` before it was proved.

Only model-checked: liveness (`EveryCallEnds`, `EveryCallAnswered`, `EveryFlowEnds`,
`OthersAreServed`), since fairness and ENABLED are beyond the prover.

## 5. Not modelled

* Encodings and cryptography: a signature verifies under the key that made it, a
  digest names what it is of. Base64, JSON and key parsing have one failure, that
  of a malformed presentation or a claim that is not a text.
* HTTP status codes, JSON layout, reason texts, assurance levels (never read by the
  code), the YAML reader (the registries it accepts are constants), the OpenAPI
  documents (text without state).
* `normalize`: a question is the pair of forms it produces. It works character by
  character, which a model would repeat rather than abstract.
* The console's panels, its lock on the buttons and its free-text box, which asks as
  `Gateway` has it; two flows of one console at once, since what they share is only
  shown.
* The mock verifier, a test seam. Eviction, which the stores do not have: they are
  bounded by the number of calls in the models.

## 6. Plan

Done: the pure core, the engine with its refinement, API over engine, wallet, the
calendar, a presentation's whole way; and, as theorems, every safety property of
theirs. What remains, in this order:

1. `Journey` as an implementation of `SingleUse`: the refinement that `Engine` has,
   for the store as it is inside the composition.
2. The API between console and engine inside `Journey`, with the late answers that
   `Gateway` has; the provenance of `ProvenanceTold` would then be that of a whole
   journey.
