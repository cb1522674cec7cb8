------------------------------ MODULE Verifier ------------------------------
(***************************************************************************)
(* SdJwtCredentialVerifier (evidence/mod.rs): the ordered checks on a      *)
(* presentation and the evidence derived from what it discloses.           *)
(*                                                                         *)
(* A presentation is a record of what the checks read of it:               *)
(*   form       "absent", "malformed" or "sdjwt"                           *)
(*   issuerKey  the key its issuer signature verifies under                *)
(*   iss        whether iss names the trust anchor                         *)
(*   genuine    whether every disclosure is one of the signed digests      *)
(*   claims     disclosed claim -> value                                   *)
(*   exp        expiry of the credential, holderKey its cnf key            *)
(*   kbKey, audience, sdHash, nonce   what the key-binding JWT is signed   *)
(*              with and says; sdHash is whether it covers this VP         *)
(* A birth_date is [garbled, adultFrom], the time its holder turns 18; a   *)
(* resident_country is [garbled, eu]; of a family_name only its presence   *)
(* counts.                                                                 *)
(***************************************************************************)
EXTENDS Naturals

CheckCodes ==
  {"NONE", "MISSING_SD_JWT_VP", "MALFORMED_VP", "INVALID_SIGNATURE", "UNTRUSTED_ISSUER",
   "UNKNOWN_DISCLOSURE", "EXPIRED_CREDENTIAL", "KEY_BINDING_MISMATCH", "NONCE_MISMATCH"}

\* Broken variant: any well-formed key-binding JWT will do.
FailedCheckUnbound(vp, issuerKey, challenge, time) ==
  IF vp.form # "sdjwt"               THEN "MALFORMED_VP"
  ELSE IF vp.issuerKey # issuerKey   THEN "INVALID_SIGNATURE"
  ELSE IF ~vp.iss                    THEN "UNTRUSTED_ISSUER"
  ELSE IF ~vp.genuine                THEN "UNKNOWN_DISCLOSURE"
  ELSE IF time > vp.exp              THEN "EXPIRED_CREDENTIAL"
  ELSE IF vp.nonce # challenge.nonce THEN "NONCE_MISMATCH"
  ELSE "NONE"

\* The first check that fails names the outcome; "NONE" when all pass.
FailedCheck(vp, issuerKey, challenge, time) ==
  IF vp.form = "absent"                   THEN "MISSING_SD_JWT_VP"
  ELSE IF vp.form = "malformed"           THEN "MALFORMED_VP"
  ELSE IF vp.issuerKey # issuerKey        THEN "INVALID_SIGNATURE"
  ELSE IF ~vp.iss                         THEN "UNTRUSTED_ISSUER"
  ELSE IF ~vp.genuine                     THEN "UNKNOWN_DISCLOSURE"
  ELSE IF time > vp.exp                   THEN "EXPIRED_CREDENTIAL"
  ELSE IF \/ vp.kbKey # vp.holderKey
          \/ vp.audience # challenge.audience
          \/ ~vp.sdHash                   THEN "KEY_BINDING_MISMATCH"
  ELSE IF vp.nonce # challenge.nonce      THEN "NONCE_MISMATCH"
  ELSE "NONE"

\* The evidence types a claim can establish; the others stay MISSING.
RequiredClaimFor(type) ==
  CASE type = "AGE_ATTESTATION"      -> "birth_date"
    [] type = "GOVERNMENT_IDENTITY"  -> "family_name"
    [] type = "RESIDENCE_CREDENTIAL" -> "resident_country"
    [] OTHER                         -> "none"

\* Broken variant: what is shown to be false is taken for not shown.
DeriveStateUndecided(type, value, time) ==
  CASE type = "AGE_ATTESTATION" ->
         IF ~value.garbled /\ time >= value.adultFrom THEN "AVAILABLE" ELSE "UNKNOWN"
    [] type = "RESIDENCE_CREDENTIAL" ->
         IF ~value.garbled /\ value.eu THEN "AVAILABLE" ELSE "UNKNOWN"
    [] OTHER -> "AVAILABLE"

\* derive_state; a value of another type than text, or no date, says nothing.
DeriveState(type, value, time) ==
  CASE type = "AGE_ATTESTATION" ->
         IF value.garbled THEN "UNKNOWN"
         ELSE IF time >= value.adultFrom THEN "AVAILABLE" ELSE "INVALID"
    [] type = "RESIDENCE_CREDENTIAL" ->
         IF value.garbled THEN "UNKNOWN"
         ELSE IF value.eu THEN "AVAILABLE" ELSE "INVALID"
    [] OTHER -> "AVAILABLE"

\* One state per evidence type: those the challenge does not require are not
\* derived at all, and count as missing; so do those no claim is mapped to.
DeriveEvidence(types, required, claims, time) ==
  [t \in types |->
     IF t \in required /\ RequiredClaimFor(t) \in DOMAIN claims \ {"none"}
     THEN DeriveState(t, claims[RequiredClaimFor(t)], time)
     ELSE "MISSING"]

=============================================================================
