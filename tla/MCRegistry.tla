----------------------------- MODULE MCRegistry -----------------------------
(***************************************************************************)
(* The shipped registry (rust-engine/config/*.yaml) as constant values.    *)
(***************************************************************************)
EXTENDS Naturals, Sequences

NoPreference == "none"

MCEvidenceTypes ==
  {"AGE_ATTESTATION", "GOVERNMENT_IDENTITY", "RESIDENCE_CREDENTIAL", "CONSENT_RECORD"}

MCPredicates ==
  [age_over_18 |-> [evidence |-> <<"AGE_ATTESTATION", "GOVERNMENT_IDENTITY">>,
                    prefer |-> "AGE_ATTESTATION"],
   identity_verified |-> [evidence |-> <<"GOVERNMENT_IDENTITY">>, prefer |-> NoPreference],
   eu_resident |-> [evidence |-> <<"RESIDENCE_CREDENTIAL">>, prefer |-> NoPreference],
   consent_valid |-> [evidence |-> <<"CONSENT_RECORD">>, prefer |-> NoPreference]]

MCPolicies ==
  [BANK_ACCOUNT_OPENING_V1 |->
     <<"identity_verified", "age_over_18", "eu_resident", "consent_valid">>]

MCQuestions ==
  <<[canonical |-> "age_over_18", kind |-> "PREDICATE", aliases |-> {"is this user over 18"}],
    [canonical |-> "BANK_ACCOUNT_OPENING_V1", kind |-> "POLICY",
     aliases |-> {"can this user open a bank account"}]>>

\* The age question and a policy that asks for residence as well.
AgeAndResidence ==
  [age_over_18 |-> MCPredicates.age_over_18, eu_resident |-> MCPredicates.eu_resident]
AdultResident == [ADULT_RESIDENT |-> <<"age_over_18", "eu_resident">>]

=============================================================================
