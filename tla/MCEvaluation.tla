---------------------------- MODULE MCEvaluation ----------------------------
(***************************************************************************)
(* The shipped registry, and beside it what the loader would also accept:  *)
(* a predicate that prefers its last option and repeats one, one that      *)
(* prefers a type it does not list, one without options, and policies that *)
(* use them, one requiring a predicate nobody defined.                     *)
(***************************************************************************)
EXTENDS Evaluation, MCRegistry, TLC

OddPredicates ==
  [adult_by_id |-> [evidence |-> <<"GOVERNMENT_IDENTITY", "AGE_ATTESTATION", "GOVERNMENT_IDENTITY">>,
                    prefer |-> "AGE_ATTESTATION"],
   resident_or_adult |-> [evidence |-> <<"RESIDENCE_CREDENTIAL", "AGE_ATTESTATION">>,
                          prefer |-> "CONSENT_RECORD"],
   unprovable |-> [evidence |-> << >>, prefer |-> NoPreference]]

OddPolicies ==
  [ODD_ORDER |-> <<"resident_or_adult", "adult_by_id", "age_over_18">>,
   HALF_DEFINED |-> <<"eu_resident", "nobody_defined_this">>,
   DEAD_END |-> <<"unprovable", "consent_valid">>]

AllPredicates == MCPredicates @@ OddPredicates
AllPolicies == MCPolicies @@ OddPolicies

=============================================================================
