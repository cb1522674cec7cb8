------------------------------- MODULE Wallet -------------------------------
(***************************************************************************)
(* MockWallet and its clients: it gets one credential per subject from the *)
(* engine's issuer, under its monitor, presents parts of it, and keeps the *)
(* abstract holdings that /v1/decisions evaluates.  All of it is in the    *)
(* memory of the API; the issuer's key is in the memory of the engine.     *)
(***************************************************************************)
EXTENDS Policy, Verifier

CONSTANTS
  Subjects,       \* subjects that clients name
  InitialHeld,    \* subject -> evidence types it holds when the API starts
  Grantable,      \* evidence types a client may grant
  Asked,          \* canonicals a client may ask about
  Calls,          \* requests of clients to the API
  CredentialTTL,  \* CREDENTIAL_TTL_SECONDS in ticks
  MaxTime, MaxApiRestarts, MaxEngineRestarts  \* bounds

ASSUME WalletAssumption ==
  /\ CredentialTTL \in Nat /\ MaxTime \in Nat
  /\ MaxApiRestarts \in Nat /\ MaxEngineRestarts \in Nat
  /\ InitialHeld \in [Subjects -> SUBSET EvidenceTypes]
  /\ Grantable \subseteq EvidenceTypes

VARIABLES
  clock, engineEpoch, apiEpoch,
  holdings,     \* subject -> evidence types held
  credentials,  \* subject -> [holderKey, issuerKey, exp]
  monitor,      \* the call inside the wallet's synchronized methods, if any
  calls         \* call -> local state of its thread, kept when it has ended

vars == <<clock, engineEpoch, apiEpoch, holdings, credentials, monitor, calls>>

Ended == {"answered", "failed", "lost"}

Put(f, k, v) == [x \in DOMAIN f \cup {k} |-> IF x = k THEN v ELSE f[x]]

\* What the issuer knows of every subject: an adult living in the EU.
DemoClaims ==
  [given_name |-> "any", family_name |-> "any",
   birth_date |-> [garbled |-> FALSE, adultFrom |-> 0],
   resident_country |-> [garbled |-> FALSE, eu |-> TRUE]]

Init ==
  /\ clock = 0 /\ engineEpoch = 0 /\ apiEpoch = 0
  /\ holdings = InitialHeld
  /\ credentials = << >>
  /\ monitor = {}
  /\ calls = << >>

-----------------------------------------------------------------------------
(***************************************************************************)
(* What is presented.                                                      *)
(***************************************************************************)

\* Broken variant: the name is taken to be the given name alone.
ClaimsToDiscloseGivenName(required) ==
  UNION {CASE t = "AGE_ATTESTATION"      -> {"birth_date"}
           [] t = "GOVERNMENT_IDENTITY"  -> {"given_name"}
           [] t = "RESIDENCE_CREDENTIAL" -> {"resident_country"}
           [] OTHER                      -> {} : t \in required}

\* The wallet's own table from requested evidence to claims, in another
\* language than the verifier's RequiredClaimFor.
ClaimsToDisclose(required) ==
  UNION {CASE t = "AGE_ATTESTATION"      -> {"birth_date"}
           [] t = "GOVERNMENT_IDENTITY"  -> {"given_name", "family_name"}
           [] t = "RESIDENCE_CREDENTIAL" -> {"resident_country"}
           [] OTHER                      -> {} : t \in required}

\* The presentation of credential cred for a request: the selected disclosures
\* and a key-binding JWT over exactly them.
Vp(cred, audience, nonce, required) ==
  [form |-> "sdjwt", issuerKey |-> cred.issuerKey, iss |-> TRUE, genuine |-> TRUE,
   claims |-> [x \in DOMAIN DemoClaims \cap ClaimsToDisclose(required) |-> DemoClaims[x]],
   exp |-> cred.exp, holderKey |-> cred.holderKey, kbKey |-> cred.holderKey,
   audience |-> audience, sdHash |-> TRUE, nonce |-> nonce]

-----------------------------------------------------------------------------
(***************************************************************************)
(* The threads.                                                            *)
(***************************************************************************)

\* Both sides fall back to it: the plan and the wallet.
DefaultAudience == "relying-party-demo"

\* The challenge of a question none of whose evidence is known, as the engine
\* keeps it; the client hands its nonce and required evidence to the wallet.
ChallengeFor(c, canonical) ==
  [nonce |-> c, audience |-> DefaultAudience, canonical |-> canonical, kind |-> KindOf(canonical),
   required |-> BuildPlan(canonical, KindOf(canonical), {}).requiredEvidence]

Receive(c, op, subject, stage, type, canonical) ==
  /\ c \notin DOMAIN calls
  /\ calls' = Put(calls, c,
       [op |-> op, subject |-> subject, stage |-> stage, type |-> type, canonical |-> canonical,
        epoch |-> apiEpoch,
        after |-> {d \in DOMAIN calls : op = "decide" /\ calls[d].stage \in Ended},
        credential |-> {}, held |-> {}, decision |-> "none"])
  /\ UNCHANGED <<clock, engineEpoch, apiEpoch, holdings, credentials, monitor>>

ReceiveIssue(c, s)       == Receive(c, "issue", s, "entry", "none", "none")
ReceiveGrant(c, s, type) == Receive(c, "grant", s, "grant", type, "none")
ReceivePresent(c, s, x)  == Receive(c, "present", s, "entry", "none", x)
ReceiveDecide(c, s, x)   == Receive(c, "decide", s, "list", "none", x)

At(c, stage) == c \in DOMAIN calls /\ calls[c].stage = stage

\* Broken variant: a grant puts a set of its own.
GrantReplaces(c) ==
  /\ At(c, "grant")
  /\ holdings' = [holdings EXCEPT ![calls[c].subject] = {calls[c].type}]
  /\ calls' = [calls EXCEPT ![c].stage = "entry"]
  /\ UNCHANGED <<clock, engineEpoch, apiEpoch, credentials, monitor>>

\* grant adds to the holdings first, outside the monitor, whatever becomes of
\* the issuance that follows.
Grant(c) ==
  /\ At(c, "grant")
  /\ holdings' = [holdings EXCEPT ![calls[c].subject] = @ \cup {calls[c].type}]
  /\ calls' = [calls EXCEPT ![c].stage = "entry"]
  /\ UNCHANGED <<clock, engineEpoch, apiEpoch, credentials, monitor>>

\* Broken variant: ensureIssued is not synchronized.
EnterUnlocked(c) ==
  /\ At(c, "entry")
  /\ IF calls[c].subject \in DOMAIN credentials
     THEN calls' = [calls EXCEPT ![c].stage = "answered",
                                 ![c].credential = {credentials[calls[c].subject]}]
     ELSE calls' = [calls EXCEPT ![c].stage = "issuing"]
  /\ UNCHANGED <<clock, engineEpoch, apiEpoch, holdings, credentials, monitor>>

\* ensureIssued: the monitor is free, and is kept only while the engine is
\* asked for a credential the wallet does not have.  What follows it in issue
\* and present reads nothing but that immutable credential.
Enter(c) ==
  /\ At(c, "entry") /\ monitor = {}
  /\ IF calls[c].subject \in DOMAIN credentials
     THEN /\ calls' = [calls EXCEPT ![c].stage = "answered",
                                    ![c].credential = {credentials[calls[c].subject]}]
          /\ UNCHANGED monitor
     ELSE /\ calls' = [calls EXCEPT ![c].stage = "issuing"]
          /\ monitor' = {c}
  /\ UNCHANGED <<clock, engineEpoch, apiEpoch, holdings, credentials>>

\* The engine signs over the holder key that c has just generated.
Issued(c) ==
  /\ At(c, "issuing")
  /\ LET cred == [holderKey |-> c, issuerKey |-> engineEpoch, exp |-> clock + CredentialTTL]
     IN /\ credentials' = Put(credentials, calls[c].subject, cred)
        /\ calls' = [calls EXCEPT ![c].stage = "answered", ![c].credential = {cred}]
  /\ monitor' = {}
  /\ UNCHANGED <<clock, engineEpoch, apiEpoch, holdings>>

\* Broken variant: an exception leaves the lock held.
IssueFailsLocked(c) ==
  /\ At(c, "issuing")
  /\ calls' = [calls EXCEPT ![c].stage = "failed"]
  /\ UNCHANGED <<clock, engineEpoch, apiEpoch, holdings, credentials, monitor>>

\* The engine is away or too slow: the exception leaves the monitor.
IssueFails(c) ==
  /\ At(c, "issuing")
  /\ calls' = [calls EXCEPT ![c].stage = "failed"]
  /\ monitor' = {}
  /\ UNCHANGED <<clock, engineEpoch, apiEpoch, holdings, credentials>>

\* knownEvidence iterates a concurrent set, so it sees what was held when it
\* started and any part of what is added meanwhile.
StartListing(c) ==
  /\ At(c, "list")
  /\ calls' = [calls EXCEPT ![c].stage = "listing", ![c].held = holdings[calls[c].subject]]
  /\ UNCHANGED <<clock, engineEpoch, apiEpoch, holdings, credentials, monitor>>

\* The decision on a set of types, each AVAILABLE.
DecisionWith(canonical, held) ==
  LET ev == [t \in EvidenceTypes |-> IF t \in held THEN "AVAILABLE" ELSE "MISSING"]
  IN Report(canonical, KindOf(canonical), ev, {[type |-> t, state |-> ev[t]] : t \in held}).decision

Decided(c) ==
  /\ At(c, "listing")
  /\ \E added \in SUBSET (holdings[calls[c].subject] \ calls[c].held) :
       LET seen == calls[c].held \cup added
       IN calls' = [calls EXCEPT ![c].stage = "answered", ![c].held = seen,
                                 ![c].decision = DecisionWith(calls[c].canonical, seen)]
  /\ UNCHANGED <<clock, engineEpoch, apiEpoch, holdings, credentials, monitor>>

\* The engine that is to decide is away or too slow.
DecideFails(c) ==
  /\ At(c, "listing")
  /\ calls' = [calls EXCEPT ![c].stage = "failed"]
  /\ UNCHANGED <<clock, engineEpoch, apiEpoch, holdings, credentials, monitor>>

-----------------------------------------------------------------------------

Tick ==
  /\ clock < MaxTime
  /\ clock' = clock + 1
  /\ UNCHANGED <<engineEpoch, apiEpoch, holdings, credentials, monitor, calls>>

\* A new issuer key; the wallet does not hear of it.
RestartEngine ==
  /\ engineEpoch < MaxEngineRestarts
  /\ engineEpoch' = engineEpoch + 1
  /\ UNCHANGED <<clock, apiEpoch, holdings, credentials, monitor, calls>>

RestartApi ==
  /\ apiEpoch < MaxApiRestarts
  /\ apiEpoch' = apiEpoch + 1
  /\ holdings' = InitialHeld
  /\ credentials' = << >>
  /\ monitor' = {}
  /\ calls' = [c \in DOMAIN calls |->
                 IF calls[c].stage \in Ended THEN calls[c] ELSE [calls[c] EXCEPT !.stage = "lost"]]
  /\ UNCHANGED <<clock, engineEpoch>>

Thread(c) ==
  \/ Grant(c) \/ Enter(c) \/ Issued(c) \/ IssueFails(c)
  \/ StartListing(c) \/ Decided(c) \/ DecideFails(c)

Next ==
  \/ \E c \in Calls :
       \/ \E s \in Subjects :
            \/ ReceiveIssue(c, s)
            \/ \E type \in Grantable : ReceiveGrant(c, s, type)
            \/ \E x \in Asked : ReceivePresent(c, s, x) \/ ReceiveDecide(c, s, x)
       \/ Thread(c)
  \/ Tick
  \/ RestartEngine
  \/ RestartApi

Spec == Init /\ [][Next]_vars

=============================================================================
