-------------------------------- MODULE SdJwt --------------------------------
(***************************************************************************)
(* Credentials and presentations as terms: what the issuer signs           *)
(* (issuer/mod.rs), what the wallet presents (MockWallet.present) and what *)
(* the verifier does with the parts it gets (evidence/mod.rs), over ideal  *)
(* cryptography (crypto.rs): a digest names what it is of, a signature     *)
(* verifies under the key that made it only.                               *)
(*                                                                         *)
(* No part holds a '~', so a text and the sequence of its parts, split at  *)
(* '~', stand for each other: "a~b" is <<a, b>>, "a~b~" is <<a, b,         *)
(* NoPart>>, the empty text << >>.  The parts of a presentation are the    *)
(* issuer's JWT, disclosures [salt, name, value] and the key-binding JWT.  *)
(* The value of a claim is a text or NotText; DateOf gives the texts that  *)
(* parse as a date.                                                        *)
(***************************************************************************)
EXTENDS AgeCheck, Verifier, SequencesExt

CONSTANTS DateOf, NotText

ASSUME SdJwtAssumption == \A text \in DOMAIN DateOf : DateOf[text] \in Dates

-----------------------------------------------------------------------------
(***************************************************************************)
(* crypto.rs and JwtCrypto.java.                                           *)
(***************************************************************************)

Sha256(bytes) == <<"sha-256", bytes>>

JwsSign(key, payload) == [key |-> key, payload |-> payload]

\* The empty part, as after a last '~': nobody's signature on nothing.
NoPart == JwsSign(<< >>, << >>)

-----------------------------------------------------------------------------
(***************************************************************************)
(* The issuer.                                                             *)
(***************************************************************************)

Iss == "https://issuer.eudi-demo.local"

\* The order in which demo_claims lists the attributes of a PID.
ClaimOrder == <<"given_name", "family_name", "birth_date", "resident_country">>

\* Every claim gets a salt nobody else has, and is signed as a digest only.
Issue(issuerKey, pid, holderKey, exp) ==
  LET disclosures == [i \in DOMAIN ClaimOrder |->
        [salt |-> <<holderKey, ClaimOrder[i]>>, name |-> ClaimOrder[i],
         value |-> pid[ClaimOrder[i]]]]
  IN [disclosures |-> disclosures,
      jwt |-> JwsSign(issuerKey,
        [iss |-> Iss, exp |-> exp, cnf |-> holderKey,
         sd |-> {Sha256(disclosures[i]) : i \in DOMAIN disclosures}])]

-----------------------------------------------------------------------------
(***************************************************************************)
(* The wallet.                                                             *)
(***************************************************************************)

\* The disclosures of some claims, in the order of the credential.
Selected(disclosures, claims) ==
  LET part(i) == IF disclosures[i].name \in claims THEN <<disclosures[i]>> ELSE << >>
  IN part(1) \o part(2) \o part(3) \o part(4)

\* Each disclosure after a '~' and a last '~': the text that the key-binding JWT
\* covers, and follows.
PresentVp(credential, holderKey, claims, audience, nonce) ==
  LET parts     == <<credential.jwt>> \o Selected(credential.disclosures, claims)
      presented == Append(parts, NoPart)
  IN Append(parts,
       JwsSign(holderKey, [aud |-> audience, nonce |-> nonce, sdHash |-> Sha256(presented)]))

-----------------------------------------------------------------------------
(***************************************************************************)
(* The verifier.                                                           *)
(***************************************************************************)

\* The parts between the two JWTs, empty ones skipped.
DisclosedParts(vp) ==
  {vp[i] : i \in {j \in 2..(Len(vp) - 1) : vp[j] # NoPart}}

\* Broken variant: the text is put together from the disclosures that were read.
HashedTextReadParts(vp) ==
  <<Head(vp)>> \o SelectSeq(Tail(Front(vp)), LAMBDA d : d # NoPart) \o <<NoPart>>

\* The text that verify takes sd_hash to be of: all parts but the key-binding
\* JWT, the empty ones too, joined again and closed with a '~'.
HashedText(vp) == Append(Front(vp), NoPart)

\* The map from claim to value; the last disclosure of a claim stays in it.
DisclosedClaims(vp) ==
  LET at(name) == {i \in 2..(Len(vp) - 1) : vp[i] # NoPart /\ vp[i].name = name}
  IN [name \in {d.name : d \in DisclosedParts(vp)} |->
        vp[CHOOSE i \in at(name) : \A j \in at(name) : j <= i].value]

EuCountries ==
  {"AT", "BE", "BG", "HR", "CY", "CZ", "DK", "EE", "FI", "FR", "DE", "GR", "HU", "IE", "IT", "LV",
   "LT", "LU", "MT", "NL", "PL", "PT", "RO", "SK", "SI", "ES", "SE"}

\* derive_state on a value as it is disclosed and the date of the evaluation.
StateFrom(type, value, today) ==
  CASE type = "AGE_ATTESTATION" ->
         IF value \notin DOMAIN DateOf THEN "UNKNOWN"
         ELSE IF IsOver18(DateOf[value], today) THEN "AVAILABLE" ELSE "INVALID"
    [] type = "RESIDENCE_CREDENTIAL" ->
         IF value = NotText THEN "UNKNOWN"
         ELSE IF value \in EuCountries THEN "AVAILABLE" ELSE "INVALID"
    [] OTHER -> "AVAILABLE"

=============================================================================
