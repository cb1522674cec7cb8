---------------------------- MODULE WalletSafety -----------------------------
(***************************************************************************)
(* What the wallet guarantees its subjects.                                *)
(***************************************************************************)
EXTENDS Wallet

Served == {c \in DOMAIN calls : calls[c].credential # {} /\ calls[c].epoch = apiEpoch}

\* Issuance is idempotent per subject (ensureIssued, whose check and store lie
\* on two sides of a call to the engine): all the calls that were ever served a
\* credential of one subject have the same one, the wallet's.
OneCredential ==
  \A c \in Served : calls[c].credential = {credentials[calls[c].subject]}

\* The presentation that call c was answered with.
VpOf(c) ==
  LET ch == ChallengeFor(c, calls[c].canonical)
  IN Vp(CHOOSE x \in calls[c].credential : TRUE, DefaultAudience, ch.nonce, ch.required)

\* What the engine makes of it, should it arrive now.
EngineDecision(c) ==
  LET ch == ChallengeFor(c, calls[c].canonical)
      ev == DeriveEvidence(EvidenceTypes, ch.required, VpOf(c).claims, clock)
  IN Report(ch.canonical, ch.kind, ev, {[type |-> t, state |-> ev[t]] : t \in ch.required}).decision

Presented == {c \in Served : calls[c].op = "present"}

\* Every required predicate has among the requested evidence a type that a
\* claim establishes.
Claimable(ch) ==
  \A p \in RequiredPredicates(ch.canonical, ch.kind) :
    /\ p \in DOMAIN Predicates
    /\ \E t \in Options(p) \cap ch.required : RequiredClaimFor(t) # "none"

\* The wallet's claim table, its key binding and the verifier's checks fit
\* together (MockWallet.present, evidence/mod.rs): while the issuer's key is the
\* one that signed and the credential is in its term, an honest presentation
\* passes every check and is allowed, unless a predicate is asked whose
\* evidence no claim establishes; then it is undecided, never denied.
HonestPresentationAllowed ==
  \A c \in Presented :
    LET ch   == ChallengeFor(c, calls[c].canonical)
        cred == CHOOSE x \in calls[c].credential : TRUE
    IN /\ FailedCheck(VpOf(c), engineEpoch, ch, clock) =
            IF cred.issuerKey # engineEpoch THEN "INVALID_SIGNATURE"
            ELSE IF clock > cred.exp THEN "EXPIRED_CREDENTIAL" ELSE "NONE"
       /\ EngineDecision(c) = IF Claimable(ch) THEN "ALLOW" ELSE "UNKNOWN"

\* Granting only helps (heldFor, knownEvidence, whose listing is not atomic):
\* of two calls about one subject and question, the one that started after the
\* other was answered is not answered worse, and it counts every grant answered
\* or failed before it started.
GrantsCount ==
  \A c \in DOMAIN calls : calls[c].decision # "none" =>
    \A d \in calls[c].after :
      (calls[d].subject = calls[c].subject /\ calls[d].epoch = calls[c].epoch) =>
        /\ calls[d].op = "grant" /\ calls[d].stage # "lost" => calls[d].type \in calls[c].held
        /\ calls[d].decision = "ALLOW" /\ calls[d].canonical = calls[c].canonical =>
             calls[c].decision = "ALLOW"

-----------------------------------------------------------------------------

\* WHITEPAPER 6.2: claimsToDisclose maps required evidence to the minimum
\* claims.  Every disclosed claim is one the verifier derives something from;
\* given_name is not.
DisclosureIsMinimal ==
  \A c \in Presented :
    LET ch == ChallengeFor(c, calls[c].canonical)
    IN \A x \in DOMAIN VpOf(c).claims : \E t \in ch.required : RequiredClaimFor(t) = x

=============================================================================
